---- MODULE Spec2Model ----
(***************************************************************************)
(* Model of the medifinder-web chat bridge:                                *)
(*   src/app/llm/client.py     LLMClient.generate_response (the turn)      *)
(*   src/app/routes/main.py    chat / generate / check_mcp_connection      *)
(*   src/app/mcp/client.py     MCPClient (the shared tool-host connection) *)
(*   src/tool_runner.py        the per-call child process                  *)
(*                                                                         *)
(* A model text is a sequence of tokens.  A token is a run of plain words, *)
(* a failure phrase, a sentence terminator, or a tool mention              *)
(* "<verb> la herramienta <name> con argumentos: {<json>}".                *)
(***************************************************************************)
EXTENDS Integers, Sequences, FiniteSets, TLC

\* ---------------------------------------------------------------- bounds
\* longest model text, in tokens
MaxTokens == 2
\* chat requests accepted in one session
MaxChats == 1
\* seconds that pass in one Tick
TickSeconds == 15
\* connection-check threads that may run at the same time
MaxThreads == 2
\* sessions (server processes) that may be alive at the same time
MaxSessions == 2
\* tokens in a text given to the extraction and the display filter
MaxFilterLen == 3
\* tokens in a text that is long enough to be cut
MaxCutLen == 4
\* chat requests of a session that is followed over several turns
MaxSessionChats == 2

\* ------------------------------------------------------ program constants
\* subprocess.run(..., timeout=30)
ToolTimeout == 30
\* response_queue.get(timeout=30.0)
ReadTimeout == 30
\* end_pos = min(last_mention.end() + 50, ...)
Margin == 50

Min(a, b) == IF a < b THEN a ELSE b

\* the names _extract_tool_calls accepts (a literal list in the code)
KnownToolNames ==
    {"search_medicines", "get_medicine_locations", "get_medicine_stock",
     "get_regional_statistics", "get_medicine_status", "diagnose_database",
     "troubleshoot_connection", "create_database_schema"}

\* pattern families: 0 is main_pattern, 1..3 are alternative_patterns in order
Families == 0 .. 3

\* ----------------------------------------------------------------- tokens
Plain == [k |-> "plain", fam |-> 0, name |-> "", json |-> TRUE, len |-> 20]
\* a longer run of ordinary words, longer than the margin kept after a mention
Paragraph == [k |-> "plain", fam |-> 0, name |-> "", json |-> TRUE, len |-> 60]
FailPhrase == [k |-> "fail", fam |-> 0, name |-> "", json |-> TRUE, len |-> 46]
Stop == [k |-> "stop", fam |-> 0, name |-> "", json |-> TRUE, len |-> 1]
Ellipsis == [k |-> "ellipsis", fam |-> 0, name |-> "", json |-> TRUE, len |-> 3]
Mention(f, n, j) == [k |-> "mention", fam |-> f, name |-> n, json |-> j, len |-> 60]

\* the tokens the model API may produce in a turn
TurnTokens ==
    { Plain,
      Mention(0, "search_medicines", TRUE) }

SeqsUpTo(S, n) == UNION { [1 .. m -> S] : m \in 0 .. n }

\* the texts of a turn: plain sentences and mentions of a known tool in any
\* order, and one text that mentions a name outside the known list
TurnTexts ==
    SeqsUpTo(TurnTokens, MaxTokens) \cup { << Mention(0, "inventada", TRUE) >> }

\* the texts the extraction and the display filter are checked on: sentences,
\* failure phrases, terminators, mentions of a known tool in the main and in
\* an alternative wording, of an unknown name, and with arguments that are
\* not JSON
FilterTokens ==
    { Plain, FailPhrase, Stop,
      Mention(0, "search_medicines", TRUE),
      Mention(1, "get_medicine_locations", TRUE),
      Mention(2, "get_medicine_stock", TRUE),
      Mention(0, "inventada", TRUE),
      Mention(0, "search_medicines", FALSE) }

\* longer texts, which reach beyond the margin after the last mention
CutTokens ==
    { Plain, Paragraph, FailPhrase, Stop, Mention(0, "search_medicines", TRUE) }

FilterTexts ==
    SeqsUpTo(FilterTokens, MaxFilterLen) \cup SeqsUpTo(CutTokens, MaxCutLen)

\* a token that is not model text: an error message, an argument object, ...
Tok(kind, n) == [k |-> kind, fam |-> 0, name |-> n, json |-> TRUE, len |-> 0]

\* --------------------------------------------------- ToolCallExtractor
\* positions of the matches of pattern family f in text, in text order
RECURSIVE MatchesFrom(_, _, _)
MatchesFrom(text, f, i) ==
    IF i > Len(text) THEN << >>
    ELSE (IF text[i].k = "mention" /\ text[i].fam = f THEN << i >> ELSE << >>)
         \o MatchesFrom(text, f, i + 1)

\* mutant: the name of a match is not validated against the known names
AcceptMatch_AnyName(text, i) ==
    IF text[i].json
    THEN << [name |-> text[i].name, args |-> i] >>
    ELSE << >>

\* mutant: arguments that do not parse are replaced by an empty object
AcceptMatch_AnyArgs(text, i) ==
    IF text[i].name \in KnownToolNames
    THEN << [name |-> text[i].name, args |-> i] >>
    ELSE << >>

\* one match: accepted when the name is known and the argument span is JSON
AcceptMatch(text, i) ==
    IF text[i].name \in KnownToolNames /\ text[i].json
    THEN << [name |-> text[i].name, args |-> i] >>
    ELSE << >>

RECURSIVE CallsOf(_, _)
CallsOf(text, matches) ==
    IF matches = << >> THEN << >>
    ELSE AcceptMatch(text, Head(matches)) \o CallsOf(text, Tail(matches))

FamilyCalls(text, f) == CallsOf(text, MatchesFrom(text, f, 1))

_extract_tool_calls(text) ==
    LET main == FamilyCalls(text, 0)
    IN  IF main # << >> THEN main
        ELSE FamilyCalls(text, 1) \o FamilyCalls(text, 2) \o FamilyCalls(text, 3)

\* ------------------------------------------------------- display text
\* Tokens are written with one blank between them; a terminator is written
\* directly after the token before it.
RECURSIVE EndPos(_, _)
EndPos(text, i) ==
    IF i = 0 THEN 0
    ELSE EndPos(text, i - 1) + text[i].len
         + (IF i = 1 \/ text[i].k = "stop" THEN 0 ELSE 1)

IsMention(text, i) == text[i].k = "mention"

\* tool_mentions[-1]: the last match of any of the four patterns
LastMention(text) ==
    LET ms == { i \in 1 .. Len(text) : IsMention(text, i) }
    IN  CHOOSE i \in ms : \A j \in ms : j <= i

\* mutant: the text is cut at the first terminator after the mention, without
\* the margin
CutPoint_NoMargin(text) ==
    LET start == EndPos(text, LastMention(text))
        stops == { i \in 1 .. Len(text) :
                     text[i].k = "stop" /\ EndPos(text, i) - 1 >= start }
    IN  IF stops = {} THEN Len(text)
        ELSE CHOOSE i \in stops : \A j \in stops : i <= j

\* response_content[:end_pos] in tokens: up to the first terminator at or
\* after last_mention.end() + 50, or the whole text when there is none
CutPoint(text) ==
    LET total == EndPos(text, Len(text))
        start == Min(EndPos(text, LastMention(text)) + Margin, total)
        stops == { i \in 1 .. Len(text) :
                     text[i].k = "stop" /\ EndPos(text, i) - 1 >= start }
    IN  IF stops = {} THEN Len(text)
        ELSE CHOOSE i \in stops : \A j \in stops : i <= j

\* re.split(r'(?<=[.!?])\s+', ...)
RECURSIVE Sentences(_)
Sentences(toks) ==
    IF toks = << >> THEN << >>
    ELSE LET stops == { i \in 1 .. Len(toks) : toks[i].k = "stop" }
             n == IF stops = {} THEN Len(toks)
                  ELSE CHOOSE i \in stops : \A j \in stops : i <= j
         IN  << SubSeq(toks, 1, n) >> \o Sentences(SubSeq(toks, n + 1, Len(toks)))

ContainsError(sentence) == \E i \in 1 .. Len(sentence) : sentence[i].k = "fail"

\* mutant: only the first sentence is examined for error patterns
RECURSIVE JoinKept_FirstOnly(_)
JoinKept_FirstOnly(sentences) ==
    IF sentences = << >> THEN << >>
    ELSE (IF ContainsError(Head(sentences)) THEN << >> ELSE Head(sentences))
         \o (IF Tail(sentences) = << >> THEN << >>
             ELSE Head(Tail(sentences)) \o JoinKept_FirstOnly(Tail(Tail(sentences))))

RECURSIVE JoinKept(_)
JoinKept(sentences) ==
    IF sentences = << >> THEN << >>
    ELSE (IF ContainsError(Head(sentences)) THEN << >> ELSE Head(sentences))
         \o JoinKept(Tail(sentences))

EndsSentence(toks) == toks # << >> /\ toks[Len(toks)].k = "stop"

\* filtered_response when tools_to_call is not empty
FilteredResponse(text) ==
    LET kept == JoinKept(Sentences(SubSeq(text, 1, CutPoint(text))))
    IN  IF EndsSentence(kept) THEN kept ELSE kept \o << Ellipsis >>

\* filtered_response: the model text, filtered only when tools were extracted
filtered_response(text) ==
    IF _extract_tool_calls(text) # << >> THEN FilteredResponse(text) ELSE text

\* generate_response: the messages sent to the model for conversation_history
messages(conversation_history) ==
    [i \in 1 .. Len(conversation_history) |->
        [role |-> IF conversation_history[i].role = "user" THEN "user" ELSE "assistant",
         content |-> conversation_history[i].content]]

\* "\n\n**Resultado de {tool_name}**:\n```\n{formatted_result}\n```\n\n{follow_up_text}"
FollowUpContent(tool_name, formatted_result, follow_up_text) ==
    << Tok("result_block", tool_name) >> \o formatted_result \o follow_up_text

\* ------------------------------------------------------------ MCPClient
\* A tool host process: "up", "listfails" (sessions open, list_tools raises)
\* or "down" (no session can be opened, every request raises): what a
\* request finds the host to be.  hostTools is the catalogue that the server
\* script lists.
HostModes == {"up", "listfails", "down"}
HostToolSets ==
    { {"search_medicines", "get_medicine_locations"},
      {"get_medicine_locations", "get_medicine_stock"} }

\* An optional value is a sequence of length 0 (None) or 1.
None == << >>
Some(v) == << v >>

\* MCPClient.__new__
NewClient == [session |-> 0, tools |-> None, connected |-> FALSE]

\* MCPClient.close
close(c) == [c EXCEPT !.session = 0, !.tools = None, !.connected = FALSE]

\* the names the registry currently holds
RegistryNames(c) == IF c.tools = None THEN {} ELSE c.tools[1]

\* mutant: a refresh stores only the tools the registry did not hold yet
refresh_capabilities_OnlyNew(c, mode, htools) ==
    IF c.session = 0 THEN c
    ELSE IF mode = "up" THEN [c EXCEPT !.tools = Some(htools \ RegistryNames(c))]
    ELSE [c EXCEPT !.tools = Some({})]

\* MCPClient.refresh_capabilities: a failed listing is logged, tools = []
refresh_capabilities(c, mode, htools) ==
    IF c.session = 0 THEN c
    ELSE IF mode = "up" THEN [c EXCEPT !.tools = Some(htools)]
    ELSE [c EXCEPT !.tools = Some({})]

\* MCPClient.connect: the client after the call, the value returned, whether
\* the existing connection was closed first, and the connections attempted
connect(c, mode, htools) ==
    LET closing == c.connected /\ c.session # 0
        fresh == IF closing THEN close(c) ELSE c
    IN  IF mode = "down"
        THEN [client |-> close(fresh), ok |-> FALSE,
              closed |-> closing, attempts |-> 1, listed |-> FALSE]
        ELSE [client |-> [refresh_capabilities([fresh EXCEPT !.session = 1], mode, htools)
                            EXCEPT !.connected = TRUE],
              ok |-> TRUE,
              closed |-> closing, attempts |-> 1, listed |-> FALSE]

\* what a request finds: a host in one of HostModes, or "restarted": the
\* server process of the existing session is gone and a new one can be
\* started
RequestModes == HostModes \cup {"restarted"}
NewProcessMode(mode) == IF mode = "restarted" THEN "up" ELSE mode

\* mutant: the connection is given up when the listing fails, no reconnect
keep_alive_NoReconnect(c, mode, htools) ==
    IF ~c.connected \/ c.session = 0
    THEN connect(c, NewProcessMode(mode), htools)
    ELSE IF mode = "up"
    THEN [client |-> c, ok |-> TRUE,
          closed |-> FALSE, attempts |-> 0, listed |-> TRUE]
    ELSE [client |-> close(c), ok |-> FALSE,
          closed |-> TRUE, attempts |-> 0, listed |-> TRUE]

\* mutant: every check reconnects
keep_alive_AlwaysConnect(c, mode, htools) ==
    connect(c, NewProcessMode(mode), htools)

\* MCPClient.keep_alive: list_tools on the existing session; when it raises,
\* connect
keep_alive(c, mode, htools) ==
    IF ~c.connected \/ c.session = 0
    THEN connect(c, NewProcessMode(mode), htools)
    ELSE IF mode = "up"
    THEN [client |-> c, ok |-> TRUE,
          closed |-> FALSE, attempts |-> 0, listed |-> TRUE]
    ELSE [connect(c, NewProcessMode(mode), htools) EXCEPT !.listed = TRUE]

\* MCPClient.get_tools: the client after the call (the cache may be refreshed)
get_tools(c, mode, htools) ==
    IF c.tools = None \/ c.tools = Some({}) THEN refresh_capabilities(c, mode, htools) ELSE c

\* ---------------------------------------------------------- tool_runner
\* What call_tool returns, by what result_to_dict examines of it:
\*   kind      a primitive (None, str, int, float, bool), a list or dict, or
\*             any other object
\*   dumps     json.dumps(result) succeeds
\*   content   the content attribute or item: absent or None, serializable,
\*             not serializable with a text attribute, not serializable
\*             without one, or its access raises
\*   conv      a to_dict or to_json method, and whether what it returns is
\*             serializable (convjson)
\*   text      a text attribute
\*   attrs     the public attributes of __dict__: none, serializable, not
HostValues ==
    { v \in [kind : {"prim", "container", "object"}, dumps : BOOLEAN,
             content : {"none", "json", "text", "opaque", "raises"},
             conv : {"none", "to_dict", "to_json"}, convjson : BOOLEAN,
             text : BOOLEAN, attrs : {"none", "json", "opaque"}] :
        /\ v.kind = "prim" => v.dumps
        /\ v.kind = "object" => ~v.dumps
        /\ v.kind # "object" => v.conv = "none" /\ ~v.text /\ v.attrs = "none"
        /\ v.dumps => v.content = "none"
        /\ v.kind = "container" => v.content # "raises"
        /\ v.conv = "none" => v.convjson }

\* the CallToolResult of the host (its content is a list of content
\* objects), and a result whose content cannot be read
CallToolResult ==
    [kind |-> "object", dumps |-> FALSE, content |-> "opaque", conv |-> "none",
     convjson |-> TRUE, text |-> FALSE, attrs |-> "json"]
BrokenResult == [CallToolResult EXCEPT !.content = "raises"]

\* the results a tool call of a chat turn meets
TurnValues == { CallToolResult, BrokenResult }

\* a dictionary with one key; src is where its value was taken from; json:
\* json.dumps of the dictionary succeeds
Normalized(key, src, json) == [key |-> key, src |-> src, json |-> json]

\* mutant: the text attribute of the content is not looked for
result_to_dict_NoText(v) ==
    IF v.kind = "prim" \/ v.dumps THEN Normalized("content", "value", TRUE)
    ELSE IF v.content = "raises" THEN Normalized("error", "exception", TRUE)
    ELSE IF v.content = "json" THEN Normalized("content", "content", TRUE)
    ELSE IF v.content \in {"text", "opaque"}
    THEN Normalized("content", "str(content)", TRUE)
    ELSE IF v.conv # "none" THEN Normalized("content", v.conv, v.convjson)
    ELSE IF v.text THEN Normalized("content", "text", TRUE)
    ELSE IF v.attrs = "json" THEN Normalized("content", "attrs", TRUE)
    ELSE Normalized("content", "str(value)", TRUE)

result_to_dict(v) ==
    IF v.kind = "prim" \/ v.dumps THEN Normalized("content", "value", TRUE)
    ELSE IF v.content = "raises" THEN Normalized("error", "exception", TRUE)
    ELSE IF v.content = "json" THEN Normalized("content", "content", TRUE)
    ELSE IF v.content = "text" THEN Normalized("content", "content.text", TRUE)
    ELSE IF v.content = "opaque" THEN Normalized("content", "str(content)", TRUE)
    ELSE IF v.conv # "none" THEN Normalized("content", v.conv, v.convjson)
    ELSE IF v.text THEN Normalized("content", "text", TRUE)
    ELSE IF v.attrs = "json" THEN Normalized("content", "attrs", TRUE)
    ELSE Normalized("content", "str(value)", TRUE)

\* one value written to standard output by print(json.dumps(...))
Printed(key, src) == [key |-> key, src |-> src]

\* a finished process: exit code, standard output, and main's local result
Exit(rc, stdout, result) == [rc |-> rc, stdout |-> stdout, result |-> result]

\* mutant: an exception of call_tool is logged and nothing is printed
main_call_Silent(call, v) ==
    IF call = "raise" THEN Exit(1, << >>, None)
    ELSE LET d == result_to_dict(v)
         IN  IF d.json THEN Exit(0, << Printed(d.key, d.src) >>, Some(v))
             ELSE Exit(0, << Printed("content", "str(value)") >>, Some(v))

\* tool_runner.main from call_tool to its return
main_call(call, v) ==
    IF call = "raise" THEN Exit(1, << Printed("error", "exception") >>, None)
    ELSE LET d == result_to_dict(v)
         IN  IF d.json THEN Exit(0, << Printed(d.key, d.src) >>, Some(v))
             ELSE Exit(0, << Printed("content", "str(value)") >>, Some(v))

\* tool_runner.main.  argc_ok: both arguments are given; args_json: the
\* second one parses as JSON
main(argc_ok, args_json, mode, call, v) ==
    IF ~argc_ok THEN Exit(1, << Printed("error", "arguments") >>, None)
    ELSE IF ~args_json THEN Exit(1, << Printed("error", "exception") >>, None)
    ELSE IF ~connect(NewClient, mode, {}).ok
    THEN Exit(1, << Printed("error", "connect") >>, None)
    ELSE main_call(call, v)

\* ------------------------------------- the result of subprocess.run
\* json.loads(process.stdout.strip()): one JSON value, or JSONDecodeError
ParseOutput(stdout) ==
    IF Len(stdout) = 1 /\ stdout[1].key # "garbage" THEN Some(stdout[1]) ELSE None

\* mutant: the exit code is not looked at
ToolResult_AnyExitCode(out) ==
    LET p == ParseOutput(out.stdout)
    IN  IF p = None THEN None
        ELSE IF p[1].key \in {"content", "other"}
        THEN Some(<< Tok("result", p[1].src) >>)
        ELSE None

\* tool_result, or None when the examination of the process raises: a
\* non-zero exit code, output that does not parse, an error object, a JSON
\* value that is no dictionary or list
ToolResult(out) ==
    IF out.rc # 0 THEN None
    ELSE LET p == ParseOutput(out.stdout)
         IN  IF p = None THEN None
             ELSE IF p[1].key \in {"content", "other"}
             THEN Some(<< Tok("result", p[1].src) >>)
             ELSE None

\* check_mcp_connection.run_async_connection: client, mcp_initialized, status
\* and what the call did to the connection
run_async_connection(c, initialized, mode, htools) ==
    IF ~initialized
    THEN LET r == connect(c, NewProcessMode(mode), htools)
         IN  [client |-> r.client, initialized |-> r.ok,
              status |-> IF r.ok THEN "success" ELSE "error",
              closed |-> r.closed, attempts |-> r.attempts]
    ELSE LET r == keep_alive(c, mode, htools)
         IN  [client |-> r.client, initialized |-> TRUE,
              status |-> IF r.ok THEN "success" ELSE "error",
              closed |-> r.closed, attempts |-> r.attempts]

\* ---------------------------------------------------------------- state
VARIABLES
    hostTools,            \* the catalogue the host lists (environment)
    mcp_client,           \* routes/main.py: mcp_client, the shared MCPClient
    mcp_initialized,      \* routes/main.py: mcp_initialized
    conversation,         \* session['conversation']
    current_conversation, \* chat: the snapshot handed to the worker
    http,                 \* the last request served and what it was answered
    rpc,                  \* generate: "none", "start", "loop", "ended"
    delivered,            \* the records generate has yielded to the caller
    gen_full_response,    \* generate: full_response
    complete_response,    \* generate: complete_response (optional)
    response_queue,       \* generate: response_queue
    wpc,                  \* the worker: "idle", "init", "model", "loop", "tool",
                          \*             "followup", "done"
    response_content,     \* generate_response: response_content
    tools_to_call,        \* generate_response: tools_to_call
    idx,                  \* generate_response: position of the for loop
    full_response,        \* generate_response: full_response (optional: unbound)
    formatted_result,     \* generate_response: formatted_result
    yielded,              \* every event generate_response has yielded
    child,                \* the tool_runner process: "none", "connecting",
                          \*                          "calling", "exited"
    child_mcp,            \* tool_runner.main: mcp, the child's own MCPClient
    childOut,             \* its return code and standard output
    readWait,             \* seconds the reader has waited in response_queue.get
    opTime,               \* seconds the current subprocess.run has lasted
    trace,                \* history: tool steps of the turn, in order
    apiFailed,            \* history: "none", "initial", "followup", "crash"
    cutAt,                \* history: where the worker was when the read timed out
    check_thread,         \* run_async_connection threads: where each one is
    listed,               \* refresh_capabilities: tools_response of each thread
    exit_stack,           \* MCPClient.exit_stack: how many sessions it will close
    live_sessions,        \* how many sessions (server processes) are alive
    tools_reader,         \* get_mcp_tools thread: get_tools step by step
    last_listing          \* history: the latest catalogue list_tools answered

hostVars == << hostTools >>
mcpVars == << mcp_client, mcp_initialized >>
sessionVars == << conversation, current_conversation, http >>
readerVars == << rpc, delivered, gen_full_response, complete_response >>
workerVars == << wpc, response_content, tools_to_call, idx, full_response,
                 formatted_result, yielded >>
childVars == << child, child_mcp, childOut >>
timeVars == << readWait, opTime >>
histVars == << trace, apiFailed, cutAt >>
connVars == << check_thread, listed, exit_stack, live_sessions, tools_reader,
               last_listing >>
turnVars == << sessionVars, readerVars, response_queue, workerVars, childVars,
               timeVars, histVars >>
vars == << hostTools, mcp_client, mcp_initialized, conversation,
           current_conversation, http, rpc, delivered, gen_full_response,
           complete_response, response_queue, wpc, response_content,
           tools_to_call, idx, full_response, formatted_result, yielded,
           child, child_mcp, childOut, readWait, opTime, trace, apiFailed,
           cutAt, check_thread, listed, exit_stack, live_sessions, tools_reader,
           last_listing >>

\* ---------------------------------------------------------------- events
Event(type, n, data) == [type |-> type, name |-> n, data |-> data]
Msg(text) == << Tok("msg", text) >>

\* the tuples the worker puts beside the events
FinalResponse(content) == Event("final_response", "", content)
Done == Event("done", "", << >>)

Types(events) == [i \in 1 .. Len(events) |-> events[i].type]
Count(events, type) == Cardinality({ i \in 1 .. Len(events) : events[i].type = type })

Last(events) == events[Len(events)]

\* the steps of the history that are ev, and those of them that are call i's
StepsOf(ev) == { k \in 1 .. Len(trace) : trace[k].ev = ev }
StepsOfCall(ev, i) == { k \in StepsOf(ev) : trace[k].call = i }

\* what the model API and the tools may answer
FollowUpTexts == { << Plain, Stop >> }
UserMessages == { "donde hay paracetamol", "  " }
Placeholder == "Procesando respuesta..."

\* A request and its answer: the route, the message of a chat request, the
\* status code, whether check_mcp_connection was called, the status object
\* health_check built and the one it returned (optional values)
Answer(route, msg, code, checked, status, body) ==
    [route |-> route, msg |-> msg, code |-> code, checked |-> checked,
     status |-> status, body |-> body]
NoRequest == Answer("none", "", 0, FALSE, None, None)

NoChildOut == Exit(0, << >>, None)

\* the threads that check_mcp_connection starts
Threads == 1 .. MaxThreads

\* get_mcp_tools is not running
IdleReader == [pc |-> "idle", tools |-> None, out |-> {}, seen |-> {}]

\* the state of a turn before it starts
TurnReset(r) ==
    /\ rpc' = r
    /\ delivered' = << >>
    /\ gen_full_response' = << >>
    /\ complete_response' = None
    /\ response_queue' = << >>
    /\ wpc' = "idle"
    /\ response_content' = << >>
    /\ tools_to_call' = << >>
    /\ idx' = 1
    /\ full_response' = None
    /\ formatted_result' = << >>
    /\ yielded' = << >>
    /\ child' = "none"
    /\ child_mcp' = NewClient
    /\ childOut' = NoChildOut
    /\ readWait' = 0
    /\ opTime' = 0
    /\ trace' = << >>
    /\ apiFailed' = "none"
    /\ cutAt' = "none"

Init ==
    /\ hostTools \in HostToolSets
    /\ mcp_client = NewClient
    /\ mcp_initialized = FALSE
    /\ conversation = << >>
    /\ current_conversation = << >>
    /\ http = NoRequest
    /\ rpc = "none"
    /\ delivered = << >>
    /\ gen_full_response = << >>
    /\ complete_response = None
    /\ response_queue = << >>
    /\ wpc = "idle"
    /\ response_content = << >>
    /\ tools_to_call = << >>
    /\ idx = 1
    /\ full_response = None
    /\ formatted_result = << >>
    /\ yielded = << >>
    /\ child = "none"
    /\ child_mcp = NewClient
    /\ childOut = NoChildOut
    /\ readWait = 0
    /\ opTime = 0
    /\ trace = << >>
    /\ apiFailed = "none"
    /\ cutAt = "none"
    /\ check_thread = [t \in Threads |-> "idle"]
    /\ listed = [t \in Threads |-> None]
    /\ exit_stack = 0
    /\ live_sessions = 0
    /\ tools_reader = IdleReader
    /\ last_listing = None

\* ------------------------------------------------------------ the routes
\* str.strip on the messages a request may carry
strip(msg) == IF msg = "  " THEN "" ELSE msg

\* mutant: only the empty message is taken for blank
IsBlank_OnlyEmpty(msg) == msg = ""

\* "not user_message.strip()"
IsBlank(msg) == strip(msg) = ""

\* no chat request is being served: requests are taken one at a time
TurnIdle == rpc = "none"

\* chat with an empty message: 400, nothing else happens
ChatEmpty(msg) ==
    /\ TurnIdle
    /\ IsBlank(msg)
    /\ http' = Answer("chat", msg, 400, FALSE, None, None)
    /\ UNCHANGED << hostVars, connVars, mcpVars, conversation, current_conversation,
                    readerVars, response_queue, workerVars, childVars, timeVars,
                    histVars >>

\* mutant: the snapshot is taken after the placeholder was appended
Chat_SnapshotAfterPlaceholder(msg, slow, mode) ==
    /\ TurnIdle
    /\ ~IsBlank(msg)
    /\ LET r == run_async_connection(mcp_client, mcp_initialized, mode, hostTools)
           status == IF slow THEN "error" ELSE r.status
           user == [role |-> "user", content |-> msg]
       IN  /\ conversation' = conversation
                 \o << user, [role |-> "assistant", content |-> Placeholder] >>
           /\ current_conversation' = conversation'
           /\ mcp_client' = r.client
           /\ mcp_initialized' = r.initialized
           /\ rpc' = IF status = "error" THEN "none" ELSE "start"
           /\ http' = Answer("chat", msg, IF status = "error" THEN 500 ELSE 200,
                             TRUE, None, None)
    /\ UNCHANGED << hostVars, connVars, delivered, gen_full_response, complete_response,
                    response_queue, workerVars, childVars, timeVars, histVars >>

\* mutant: the placeholder is appended only when the connection check succeeds
Chat_PlaceholderOnSuccess(msg, slow, mode) ==
    /\ TurnIdle
    /\ ~IsBlank(msg)
    /\ LET r == run_async_connection(mcp_client, mcp_initialized, mode, hostTools)
           status == IF slow THEN "error" ELSE r.status
           user == [role |-> "user", content |-> msg]
       IN  /\ conversation' = conversation \o << user >>
                 \o (IF status = "error" THEN << >>
                     ELSE << [role |-> "assistant", content |-> Placeholder] >>)
           /\ current_conversation' = conversation \o << user >>
           /\ mcp_client' = r.client
           /\ mcp_initialized' = r.initialized
           /\ rpc' = IF status = "error" THEN "none" ELSE "start"
           /\ http' = Answer("chat", msg, IF status = "error" THEN 500 ELSE 200,
                             TRUE, None, None)
    /\ UNCHANGED << hostVars, connVars, delivered, gen_full_response, complete_response,
                    response_queue, workerVars, childVars, timeVars, histVars >>

\* chat, up to the streaming Response.  slow: the connection thread outlives
\* the 10 s join, so the check answers "error" whatever the thread does.
Chat(msg, slow, mode) ==
    /\ TurnIdle
    /\ ~IsBlank(msg)
    /\ LET r == run_async_connection(mcp_client, mcp_initialized, mode, hostTools)
           status == IF slow THEN "error" ELSE r.status
           user == [role |-> "user", content |-> msg]
       IN  /\ conversation' = conversation
                 \o << user, [role |-> "assistant", content |-> Placeholder] >>
           /\ current_conversation' = conversation \o << user >>
           /\ mcp_client' = r.client
           /\ mcp_initialized' = r.initialized
           /\ rpc' = IF status = "error" THEN "none" ELSE "start"
           /\ http' = Answer("chat", msg, IF status = "error" THEN 500 ELSE 200,
                             TRUE, None, None)
    /\ UNCHANGED << hostVars, connVars, delivered, gen_full_response, complete_response,
                    response_queue, workerVars, childVars, timeVars, histVars >>

\* the request is over: the stream has ended and the worker thread has
\* finished, their locals are gone
TurnEnd ==
    /\ rpc = "ended"
    /\ wpc \in {"idle", "done"}
    /\ TurnReset("none")
    /\ UNCHANGED << hostVars, connVars, mcpVars, sessionVars >>

\* reset_conversation
ResetConversation ==
    /\ conversation # << >>
    /\ conversation' = << >>
    /\ http' = Answer("reset", "", 200, FALSE, None, None)
    /\ UNCHANGED << hostVars, connVars, mcpVars, current_conversation, readerVars,
                    response_queue, workerVars, childVars, timeVars, histVars >>

\* get_mcp_tools: the names that get_tools answers
get_mcp_tools(c, mode, htools) == RegistryNames(get_tools(c, mode, htools))

\* mutant: the thread is given the queue that health_check reads
ToolQueues_Shared(names) == [thread |-> << names >>, tool_queue |-> << names >>]

\* health_check: the Queue() passed to the thread in args and tool_queue, a
\* second Queue(), once the thread has put the answer of get_mcp_tools
ToolQueues(names) == [thread |-> << names >>, tool_queue |-> << >>]

\* health_check up to the check of the API key: the mcp part of status
HealthStatus(connection_status, names) ==
    IF connection_status = "success"
    THEN LET tool_queue == ToolQueues(names).tool_queue
         IN  IF tool_queue = << >>
             THEN [mcp |-> "error", tools |-> {},
                   mcp_error |-> "Timeout getting tools list"]
             ELSE [mcp |-> "success", tools |-> Head(tool_queue), mcp_error |-> ""]
    ELSE [mcp |-> "error", tools |-> {}, mcp_error |-> "connection"]

\* health_check: the connection check, get_mcp_tools in its thread, then
\* os.environ.get: the module does not import os, NameError is raised and
\* the request is answered 500 without the status object
HealthCheck(mode) ==
    /\ TurnIdle
    /\ LET r == run_async_connection(mcp_client, mcp_initialized, mode, hostTools)
           names == get_mcp_tools(r.client, NewProcessMode(mode), hostTools)
       IN  /\ mcp_client' = IF r.status = "success"
                            THEN get_tools(r.client, NewProcessMode(mode), hostTools)
                            ELSE r.client
           /\ mcp_initialized' = r.initialized
           /\ http' = Answer("health", "", 500, TRUE,
                             Some(HealthStatus(r.status, names)), None)
    /\ UNCHANGED << hostVars, connVars, conversation, current_conversation, readerVars,
                    response_queue, workerVars, childVars, timeVars, histVars >>

\* the environment: the host goes down, comes back, changes its catalogue
HostChange ==
    /\ TurnIdle
    /\ hostTools' \in HostToolSets
    /\ hostTools' # hostTools
    /\ UNCHANGED << mcpVars, connVars, turnVars >>

\* ------------------------------------------------------ generate (reader)
EndRecord == Event("end", "", IF complete_response = None THEN gen_full_response
                                  ELSE complete_response[1])

\* generate up to its loop: the worker thread is started, start is yielded;
\* fails: an exception there, handled by generate's own except clause
GenerateStart(fails) ==
    /\ rpc = "start"
    /\ IF fails
       THEN /\ delivered' = << Event("error", "", Msg("exception")),
                               Event("end", "no_complete_response", << >>) >>
            /\ rpc' = "ended"
            /\ wpc' = wpc
       ELSE /\ delivered' = << Event("start", "", << >>) >>
            /\ rpc' = "loop"
            /\ wpc' = "init"
    /\ readWait' = 0
    /\ UNCHANGED << hostVars, connVars, mcpVars, sessionVars, gen_full_response,
                    complete_response, response_queue, response_content,
                    tools_to_call, idx, full_response, formatted_result, yielded,
                    childVars, opTime, histVars >>

\* mutant: the loop goes on reading the queue after the stream has ended
ReaderGet_AfterEnd ==
    /\ rpc \in {"loop", "ended"}
    /\ response_queue # << >>
    /\ LET chunk == Head(response_queue)
       IN  /\ response_queue' = Tail(response_queue)
           /\ IF chunk.type = "done"
              THEN /\ delivered' = Append(delivered, EndRecord)
                   /\ rpc' = "ended"
                   /\ UNCHANGED << gen_full_response, complete_response >>
              ELSE IF chunk.type = "final_response"
              THEN /\ complete_response' = Some(chunk.data)
                   /\ UNCHANGED << rpc, delivered, gen_full_response >>
              ELSE /\ delivered' = Append(delivered, chunk)
                   /\ gen_full_response' =
                        IF chunk.type \in {"chunk", "follow_up"}
                        THEN gen_full_response \o chunk.data
                        ELSE gen_full_response
                   /\ UNCHANGED << rpc, complete_response >>
    /\ readWait' = 0
    /\ UNCHANGED << hostVars, connVars, mcpVars, sessionVars, workerVars, childVars,
                    opTime, histVars >>

\* mutant: only the chunk events are accumulated in full_response
ReaderGet_ChunksOnly ==
    /\ rpc = "loop"
    /\ response_queue # << >>
    /\ LET chunk == Head(response_queue)
       IN  /\ response_queue' = Tail(response_queue)
           /\ IF chunk.type = "done"
              THEN /\ delivered' = Append(delivered, EndRecord)
                   /\ rpc' = "ended"
                   /\ UNCHANGED << gen_full_response, complete_response >>
              ELSE IF chunk.type = "final_response"
              THEN /\ complete_response' = Some(chunk.data)
                   /\ UNCHANGED << rpc, delivered, gen_full_response >>
              ELSE /\ delivered' = Append(delivered, chunk)
                   /\ gen_full_response' =
                        IF chunk.type = "chunk"
                        THEN gen_full_response \o chunk.data
                        ELSE gen_full_response
                   /\ UNCHANGED << rpc, complete_response >>
    /\ readWait' = 0
    /\ UNCHANGED << hostVars, connVars, mcpVars, sessionVars, workerVars, childVars,
                    opTime, histVars >>

\* one pass of the while loop whose response_queue.get returns
ReaderGet ==
    /\ rpc = "loop"
    /\ response_queue # << >>
    /\ LET chunk == Head(response_queue)
       IN  /\ response_queue' = Tail(response_queue)
           /\ IF chunk.type = "done"
              THEN /\ delivered' = Append(delivered, EndRecord)
                   /\ rpc' = "ended"
                   /\ UNCHANGED << gen_full_response, complete_response >>
              ELSE IF chunk.type = "final_response"
              THEN /\ complete_response' = Some(chunk.data)
                   /\ UNCHANGED << rpc, delivered, gen_full_response >>
              ELSE /\ delivered' = Append(delivered, chunk)
                   /\ gen_full_response' =
                        IF chunk.type \in {"chunk", "follow_up"}
                        THEN gen_full_response \o chunk.data
                        ELSE gen_full_response
                   /\ UNCHANGED << rpc, complete_response >>
    /\ readWait' = 0
    /\ UNCHANGED << hostVars, connVars, mcpVars, sessionVars, workerVars, childVars,
                    opTime, histVars >>

\* mutant: the timeout branch reports the error and leaves the loop, but the
\* end record is not written
ReaderTimeout_NoEnd ==
    /\ rpc = "loop"
    /\ response_queue = << >>
    /\ readWait >= ReadTimeout
    /\ delivered' = delivered
          \o << Event("error", "", Msg("Timeout esperando respuesta")) >>
    /\ rpc' = "ended"
    /\ cutAt' = wpc
    /\ UNCHANGED << hostVars, connVars, mcpVars, sessionVars, gen_full_response,
                    complete_response, response_queue, workerVars, childVars,
                    timeVars, trace, apiFailed >>

\* one pass of the while loop whose response_queue.get raises Empty
ReaderTimeout ==
    /\ rpc = "loop"
    /\ response_queue = << >>
    /\ readWait >= ReadTimeout
    /\ delivered' = delivered
          \o << Event("error", "", Msg("Timeout esperando respuesta")), EndRecord >>
    /\ rpc' = "ended"
    /\ cutAt' = wpc
    /\ UNCHANGED << hostVars, connVars, mcpVars, sessionVars, gen_full_response,
                    complete_response, response_queue, workerVars, childVars,
                    timeVars, trace, apiFailed >>

\* ----------------------------------- process_llm_response (the worker)
\* the worker puts each yielded event on the queue; after a complete event
\* it puts ('final_response', content); when the generator ends, ('done', None)
Put(events) ==
    /\ yielded' = yielded \o events
    /\ response_queue' = response_queue \o events

PutLast(events) ==
    /\ yielded' = yielded \o events
    /\ response_queue' = response_queue \o events
          \o (IF events # << >> /\ events[Len(events)].type = "complete"
              THEN << FinalResponse(events[Len(events)].data) >> ELSE << >>)
          \o << Done >>

Step(ev, i) == [ev |-> ev, call |-> i]

ToolError(tool_name) == Event("tool_error", tool_name, Msg("Error executing tool"))

\* the generator starts: yield start, then the model is called.
\* crash: an exception that escapes generate_response (raised outside its
\* try block), caught by process_llm_response
WorkerStart(crash) ==
    /\ wpc = "init"
    /\ IF crash
       THEN /\ response_queue' = response_queue
                  \o << Event("error", "", Msg("worker exception")), Done >>
            /\ wpc' = "done"
            /\ apiFailed' = "crash"
            /\ UNCHANGED yielded
       ELSE /\ Put(<< Event("start", "", << >>) >>)
            /\ wpc' = "model"
            /\ UNCHANGED apiFailed
    /\ UNCHANGED << hostVars, connVars, mcpVars, sessionVars, readerVars, response_content,
                    tools_to_call, idx, full_response, formatted_result,
                    childVars, timeVars, trace, cutAt >>

\* messages.create returns text: extraction, filtering, the chunk event
ModelReturn(text) ==
    /\ wpc = "model"
    /\ response_content' = text
    /\ tools_to_call' = _extract_tool_calls(text)
    /\ IF tools_to_call' # << >>
       THEN /\ full_response' = Some(filtered_response(text))
            /\ Put(<< Event("chunk", "", filtered_response(text)) >>)
       ELSE UNCHANGED << full_response, yielded, response_queue >>
    /\ idx' = 1
    /\ wpc' = "loop"
    /\ UNCHANGED << hostVars, connVars, mcpVars, sessionVars, readerVars, formatted_result,
                    childVars, timeVars, histVars >>

\* messages.create raises: the outer except clause yields error
ModelFails ==
    /\ wpc = "model"
    /\ PutLast(<< Event("error", "", Msg("api error")) >>)
    /\ wpc' = "done"
    /\ apiFailed' = "initial"
    /\ UNCHANGED << hostVars, connVars, mcpVars, sessionVars, readerVars, response_content,
                    tools_to_call, idx, full_response, formatted_result,
                    childVars, timeVars, trace, cutAt >>

\* mutant: the next call is dispatched while the current one is in flight
ToolBegin_Parallel(exists) ==
    /\ wpc \in {"loop", "tool"}
    /\ LET i == IF wpc = "tool" THEN idx + 1 ELSE idx
       IN  /\ i <= Len(tools_to_call)
           /\ exists
           /\ Put(<< Event("tool_use", tools_to_call[i].name,
                           << [Tok("args", tools_to_call[i].name)
                                 EXCEPT !.fam = tools_to_call[i].args] >>) >>)
           /\ child' = "connecting"
           /\ child_mcp' = NewClient
           /\ childOut' = NoChildOut
           /\ opTime' = 0
           /\ wpc' = "tool"
           /\ trace' = trace \o << Step("tool_use", i), Step("spawn", i) >>
           /\ idx' = i
    /\ UNCHANGED << hostVars, connVars, mcpVars, sessionVars, readerVars, response_content,
                    tools_to_call, full_response, formatted_result, readWait,
                    apiFailed, cutAt >>

\* top of the for loop: yield tool_use, then subprocess.run is entered;
\* exists: os.path.exists(tool_runner_path)
ToolBegin(exists) ==
    /\ wpc = "loop"
    /\ idx <= Len(tools_to_call)
    /\ LET call == tools_to_call[idx]
           use == Event("tool_use", call.name, << [Tok("args", call.name) EXCEPT !.fam = call.args] >>)
       IN  IF exists
           THEN /\ Put(<< use >>)
                /\ child' = "connecting"
                /\ UNCHANGED << child_mcp, childOut >>
                /\ opTime' = 0
                /\ wpc' = "tool"
                /\ trace' = trace \o << Step("tool_use", idx), Step("spawn", idx) >>
                /\ UNCHANGED idx
           ELSE /\ Put(<< use, ToolError(call.name) >>)
                /\ trace' = trace \o << Step("tool_use", idx), Step("failed", idx) >>
                /\ idx' = idx + 1
                /\ UNCHANGED << wpc, childVars, opTime >>
    /\ UNCHANGED << hostVars, connVars, mcpVars, sessionVars, readerVars, response_content,
                    tools_to_call, full_response, formatted_result, readWait,
                    apiFailed, cutAt >>

\* tool_runner.main up to call_tool: a fresh MCPClient connects to a server
\* process of its own (mode: how that process behaves), then the tool is
\* called on it
ChildConnect(mode) ==
    /\ wpc = "tool"
    /\ child = "connecting"
    /\ LET r == connect(NewClient, mode, hostTools)
       IN  IF r.ok
           THEN /\ child' = "calling"
                /\ child_mcp' = r.client
                /\ trace' = Append(trace, Step("host_call", idx))
                /\ UNCHANGED childOut
           ELSE /\ child' = "exited"
                /\ child_mcp' = r.client
                /\ childOut' = Exit(1, << Printed("error", "connect") >>, None)
                /\ UNCHANGED trace
    /\ UNCHANGED << hostVars, connVars, mcpVars, sessionVars, readerVars, response_queue,
                    workerVars, timeVars, apiFailed, cutAt >>

\* tool_runner.main from call_tool to its exit.  call: call_tool returns
\* ("ok") or raises; v: what it returns.  The client is closed by main or
\* ends with the process.
ChildFinish(call, v) ==
    /\ wpc = "tool"
    /\ child = "calling"
    /\ child' = "exited"
    /\ child_mcp' = close(child_mcp)
    /\ childOut' = main_call(call, v)
    /\ trace' = Append(trace, Step("host_done", idx))
    /\ UNCHANGED << hostVars, connVars, mcpVars, sessionVars, readerVars, response_queue,
                    workerVars, timeVars, apiFailed, cutAt >>

\* the process ends in another way than by a return of main (the
\* interpreter fails, an imported module writes to standard output, ...)
ExitOutputs ==
    { << >>,
      << Printed("garbage", "text") >>,
      << Printed("other", "dict") >>,
      << Printed("scalar", "number") >>,
      << Printed("content", "value") >>,
      << Printed("error", "exception") >>,
      << Printed("garbage", "text"), Printed("content", "value") >>,
      << Printed("content", "value"), Printed("error", "exception") >> }

ChildExit(rc, stdout) ==
    /\ wpc = "tool"
    /\ child \in {"connecting", "calling"}
    /\ child' = "exited"
    /\ child_mcp' = close(child_mcp)
    /\ childOut' = Exit(rc, stdout, None)
    /\ UNCHANGED << hostVars, connVars, mcpVars, sessionVars, readerVars, response_queue,
                    workerVars, timeVars, histVars >>

\* mutant: a failed invocation is not caught in the loop: it reaches the
\* outer except clause, which yields error and ends the generator
ToolReturn_Propagates ==
    /\ wpc = "tool"
    /\ child = "exited"
    /\ child' = "none"
    /\ child_mcp' = NewClient
    /\ childOut' = NoChildOut
    /\ opTime' = 0
    /\ trace' = trace \o << Step("return", idx),
                             Step(IF ToolResult(childOut) # None
                                  THEN "ok" ELSE "failed", idx) >>
    /\ LET call == tools_to_call[idx]
       IN  IF ToolResult(childOut) # None
           THEN /\ formatted_result' = ToolResult(childOut)[1]
                /\ Put(<< Event("tool_result", call.name, ToolResult(childOut)[1]) >>)
                /\ wpc' = "followup"
                /\ UNCHANGED idx
           ELSE /\ PutLast(<< Event("error", "", Msg("Error executing tool")) >>)
                /\ wpc' = "done"
                /\ UNCHANGED << idx, formatted_result >>
    /\ UNCHANGED << hostVars, connVars, mcpVars, sessionVars, readerVars, response_content,
                    tools_to_call, full_response, readWait, apiFailed, cutAt >>

\* subprocess.run returns: the exit code and the output are examined
ToolReturn ==
    /\ wpc = "tool"
    /\ child = "exited"
    /\ child' = "none"
    /\ child_mcp' = NewClient
    /\ childOut' = NoChildOut
    /\ opTime' = 0
    /\ trace' = trace \o << Step("return", idx),
                             Step(IF ToolResult(childOut) # None
                                  THEN "ok" ELSE "failed", idx) >>
    /\ LET call == tools_to_call[idx]
       IN  IF ToolResult(childOut) # None
           THEN /\ formatted_result' = ToolResult(childOut)[1]
                /\ Put(<< Event("tool_result", call.name, ToolResult(childOut)[1]) >>)
                /\ wpc' = "followup"
                /\ UNCHANGED idx
           ELSE /\ Put(<< ToolError(call.name) >>)
                /\ wpc' = "loop"
                /\ idx' = idx + 1
                /\ UNCHANGED formatted_result
    /\ UNCHANGED << hostVars, connVars, mcpVars, sessionVars, readerVars, response_content,
                    tools_to_call, full_response, readWait, apiFailed, cutAt >>

\* mutant: a call that timed out is run once more
ToolTimeoutExpired_Retry ==
    /\ wpc = "tool"
    /\ child # "exited"
    /\ opTime >= ToolTimeout
    /\ child_mcp' = NewClient
    /\ childOut' = NoChildOut
    /\ opTime' = 0
    /\ IF StepsOfCall("timeout", idx) = {}
       THEN /\ child' = "connecting"
            /\ trace' = trace \o << Step("timeout", idx), Step("spawn", idx) >>
            /\ UNCHANGED << wpc, idx, yielded, response_queue >>
       ELSE /\ child' = "none"
            /\ trace' = trace \o << Step("timeout", idx), Step("failed", idx) >>
            /\ Put(<< ToolError(tools_to_call[idx].name) >>)
            /\ wpc' = "loop"
            /\ idx' = idx + 1
    /\ UNCHANGED << hostVars, connVars, mcpVars, sessionVars, readerVars, response_content,
                    tools_to_call, full_response, formatted_result, readWait,
                    apiFailed, cutAt >>

\* subprocess.run raises TimeoutExpired: the child is killed
ToolTimeoutExpired ==
    /\ wpc = "tool"
    /\ child # "exited"
    /\ opTime >= ToolTimeout
    /\ child' = "none"
    /\ child_mcp' = NewClient
    /\ childOut' = NoChildOut
    /\ opTime' = 0
    /\ trace' = trace \o << Step("timeout", idx), Step("failed", idx) >>
    /\ Put(<< ToolError(tools_to_call[idx].name) >>)
    /\ wpc' = "loop"
    /\ idx' = idx + 1
    /\ UNCHANGED << hostVars, connVars, mcpVars, sessionVars, readerVars, response_content,
                    tools_to_call, full_response, formatted_result, readWait,
                    apiFailed, cutAt >>

\* mutant: the follow-up is yielded but not added to full_response
FollowUpReturn_NoAccumulate(text) ==
    /\ wpc = "followup"
    /\ LET content == FollowUpContent(tools_to_call[idx].name, formatted_result, text)
       IN  Put(<< Event("follow_up", "", content) >>)
    /\ wpc' = "loop"
    /\ idx' = idx + 1
    /\ UNCHANGED << hostVars, connVars, mcpVars, sessionVars, readerVars, response_content,
                    tools_to_call, full_response, formatted_result, childVars,
                    timeVars, histVars >>

\* the follow-up messages.create returns text
FollowUpReturn(text) ==
    /\ wpc = "followup"
    /\ LET content == FollowUpContent(tools_to_call[idx].name, formatted_result, text)
       IN  /\ full_response' = Some(full_response[1] \o content)
           /\ Put(<< Event("follow_up", "", content) >>)
    /\ wpc' = "loop"
    /\ idx' = idx + 1
    /\ UNCHANGED << hostVars, connVars, mcpVars, sessionVars, readerVars, response_content,
                    tools_to_call, formatted_result, childVars, timeVars, histVars >>

\* the follow-up messages.create raises: caught by the loop's except clause
FollowUpFails ==
    /\ wpc = "followup"
    /\ Put(<< ToolError(tools_to_call[idx].name) >>)
    /\ wpc' = "loop"
    /\ idx' = idx + 1
    /\ apiFailed' = "followup"
    /\ UNCHANGED << hostVars, connVars, mcpVars, sessionVars, readerVars, response_content,
                    tools_to_call, full_response, formatted_result, childVars,
                    timeVars, trace, cutAt >>

\* after the loop: yield complete; reading an unbound full_response raises,
\* and the outer except clause yields error instead
Finalize ==
    /\ wpc = "loop"
    /\ idx > Len(tools_to_call)
    /\ IF full_response = None
       THEN PutLast(<< Event("error", "", Msg("full_response unbound")) >>)
       ELSE PutLast(<< Event("complete", "", full_response[1]) >>)
    /\ wpc' = "done"
    /\ UNCHANGED << hostVars, connVars, mcpVars, sessionVars, readerVars, response_content,
                    tools_to_call, idx, full_response, formatted_result,
                    childVars, timeVars, histVars >>

\* ------------------------------------------------------------------ time
Blocking == {"model", "tool", "followup"}

ReaderWaiting == rpc = "loop" /\ response_queue = << >>

Tick ==
    /\ wpc \in Blocking
    /\ rpc = "loop" => ReaderWaiting /\ readWait < ReadTimeout
    /\ wpc = "tool" => child # "exited" /\ opTime < ToolTimeout
    /\ rpc = "loop" \/ wpc = "tool"
    /\ readWait' = IF rpc = "loop" THEN Min(readWait + TickSeconds, ReadTimeout)
                   ELSE readWait
    /\ opTime' = IF wpc = "tool" THEN Min(opTime + TickSeconds, ToolTimeout)
                 ELSE opTime
    /\ UNCHANGED << hostVars, connVars, mcpVars, sessionVars, readerVars, response_queue,
                    workerVars, childVars, histVars >>

\* ------------------------------------------- the connection check, stepwise
\* check_mcp_connection starts a thread for every request and joins it for
\* 10 s; the thread goes on when the join times out.  The threads share the
\* one MCPClient and nothing serializes them.  Each step below is the code
\* between two awaits.

\* MCPClient.close on the shared client: the sessions of its exit stack end
CloseShared ==
    /\ live_sessions' = live_sessions - exit_stack
    /\ exit_stack' = 0
    /\ mcp_client' = close(mcp_client)

\* the reader of the tool list records every registry it could have read
Seen(c) ==
    IF tools_reader.pc = "idle" THEN tools_reader
    ELSE [tools_reader EXCEPT !.seen = @ \cup {RegistryNames(c)}]

\* a request starts the thread
StartCheck(t) ==
    /\ check_thread[t] = "idle"
    /\ check_thread' = [check_thread EXCEPT ![t] = "run"]
    /\ UNCHANGED << hostVars, mcpVars, listed, exit_stack, live_sessions,
                    tools_reader, last_listing, turnVars >>

\* run_async_connection: connect when not initialized, else keep_alive
RunCheck(t) ==
    /\ check_thread[t] = "run"
    /\ check_thread' = [check_thread EXCEPT
                          ![t] = IF mcp_initialized THEN "keep_alive" ELSE "connect"]
    /\ UNCHANGED << hostVars, mcpVars, listed, exit_stack, live_sessions,
                    tools_reader, last_listing, turnVars >>

\* MCPClient.keep_alive: list_tools on the session, connect when it raises
KeepAlive(t, mode) ==
    /\ check_thread[t] = "keep_alive"
    /\ check_thread' = [check_thread EXCEPT
                          ![t] = IF mcp_client.connected /\ mcp_client.session # 0
                                    /\ mode = "up"
                                 THEN "idle" ELSE "connect"]
    /\ UNCHANGED << hostVars, mcpVars, listed, exit_stack, live_sessions,
                    tools_reader, last_listing, turnVars >>

\* MCPClient.connect up to the new exit stack: an existing connection is
\* closed, then self.exit_stack = AsyncExitStack()
ConnectBegin(t) ==
    /\ check_thread[t] = "connect"
    /\ IF mcp_client.connected /\ mcp_client.session # 0
       THEN /\ live_sessions' = live_sessions - exit_stack
            /\ mcp_client' = close(mcp_client)
       ELSE UNCHANGED << live_sessions, mcp_client >>
    /\ exit_stack' = 0
    /\ tools_reader' = Seen(mcp_client')
    /\ check_thread' = [check_thread EXCEPT ![t] = "enter"]
    /\ UNCHANGED << hostVars, mcp_initialized, listed, last_listing, turnVars >>

\* stdio_client, ClientSession and initialize: a server process and a session
\* are entered on the client's exit stack; when it raises, connect closes the
\* client and answers False
ConnectEnter(t, mode) ==
    /\ check_thread[t] = "enter"
    /\ IF mode = "down"
       THEN /\ CloseShared
            /\ check_thread' = [check_thread EXCEPT ![t] = "idle"]
       ELSE /\ live_sessions < MaxSessions
            /\ live_sessions' = live_sessions + 1
            /\ exit_stack' = exit_stack + 1
            /\ mcp_client' = [mcp_client EXCEPT !.session = 1]
            /\ check_thread' = [check_thread EXCEPT ![t] = "list"]
    /\ tools_reader' = Seen(mcp_client')
    /\ UNCHANGED << hostVars, mcp_initialized, listed, last_listing, turnVars >>

\* refresh_capabilities up to the answer of list_tools
RefreshList(t, mode) ==
    /\ check_thread[t] = "list"
    /\ IF mcp_client.session = 0
       THEN /\ check_thread' = [check_thread EXCEPT ![t] = "finish"]
            /\ UNCHANGED << listed, last_listing >>
       ELSE /\ check_thread' = [check_thread EXCEPT ![t] = "assign"]
            /\ listed' = [listed EXCEPT
                            ![t] = IF mode = "up" THEN Some(hostTools) ELSE Some({})]
            /\ last_listing' = IF mode = "up" THEN Some(hostTools)
                               ELSE last_listing
    /\ UNCHANGED << hostVars, mcpVars, exit_stack, live_sessions,
                    tools_reader, turnVars >>

\* refresh_capabilities: self.tools = tools_response.tools, or [] in the
\* except clause
RefreshAssign(t) ==
    /\ check_thread[t] = "assign"
    /\ mcp_client' = [mcp_client EXCEPT !.tools = listed[t]]
    /\ listed' = [listed EXCEPT ![t] = None]
    /\ tools_reader' = Seen(mcp_client')
    /\ check_thread' = [check_thread EXCEPT ![t] = "finish"]
    /\ UNCHANGED << hostVars, mcp_initialized, exit_stack, live_sessions,
                    last_listing, turnVars >>

\* connect: self.connected = True, return True; run_async_connection sets
\* mcp_initialized and the thread ends
ConnectFinish(t) ==
    /\ check_thread[t] = "finish"
    /\ mcp_client' = [mcp_client EXCEPT !.connected = TRUE]
    /\ mcp_initialized' = TRUE
    /\ check_thread' = [check_thread EXCEPT ![t] = "idle"]
    /\ UNCHANGED << hostVars, listed, exit_stack, live_sessions,
                    tools_reader, last_listing, turnVars >>

\* ----------------------------------------------- get_mcp_tools, stepwise
\* get_tools: "if not self.tools" decides whether the registry is refreshed
GetToolsStart ==
    /\ tools_reader.pc = "idle"
    /\ tools_reader' =
         [pc |-> IF mcp_client.tools = None \/ mcp_client.tools = Some({})
                 THEN "list" ELSE "check",
          tools |-> None, out |-> {}, seen |-> {RegistryNames(mcp_client)}]
    /\ UNCHANGED << hostVars, mcpVars, check_thread, listed, exit_stack,
                    live_sessions, last_listing, turnVars >>

\* refresh_capabilities in get_tools, up to the answer of list_tools
GetToolsList(mode) ==
    /\ tools_reader.pc = "list"
    /\ tools_reader' =
         IF mcp_client.session = 0 THEN [tools_reader EXCEPT !.pc = "check"]
         ELSE [tools_reader EXCEPT
                 !.pc = "assign",
                 !.tools = IF mode = "up" THEN Some(hostTools) ELSE Some({})]
    /\ last_listing' = IF mcp_client.session # 0 /\ mode = "up"
                       THEN Some(hostTools) ELSE last_listing
    /\ UNCHANGED << hostVars, mcpVars, check_thread, listed, exit_stack,
                    live_sessions, turnVars >>

\* refresh_capabilities in get_tools: self.tools = ...
GetToolsAssign ==
    /\ tools_reader.pc = "assign"
    /\ mcp_client' = [mcp_client EXCEPT !.tools = tools_reader.tools]
    /\ tools_reader' = [tools_reader EXCEPT
                          !.pc = "check", !.tools = None,
                          !.seen = @ \cup {RegistryNames(mcp_client')}]
    /\ UNCHANGED << hostVars, mcp_initialized, check_thread, listed, exit_stack,
                    live_sessions, last_listing, turnVars >>

\* get_tools: "if not self.tools: return []"
GetToolsCheck ==
    /\ tools_reader.pc = "check"
    /\ tools_reader' =
         [tools_reader EXCEPT
            !.pc = IF mcp_client.tools = None \/ mcp_client.tools = Some({})
                   THEN "done" ELSE "for"]
    /\ UNCHANGED << hostVars, mcpVars, check_thread, listed, exit_stack,
                    live_sessions, last_listing, turnVars >>

\* get_tools: "for tool in self.tools" takes the list the loop will walk; None
\* raises, and get_mcp_tools answers [] in its except clause
GetToolsFor ==
    /\ tools_reader.pc = "for"
    /\ tools_reader' =
         IF mcp_client.tools = None THEN [tools_reader EXCEPT !.pc = "done"]
         ELSE [tools_reader EXCEPT !.pc = "iter", !.tools = mcp_client.tools]
    /\ UNCHANGED << hostVars, mcpVars, check_thread, listed, exit_stack,
                    live_sessions, last_listing, turnVars >>

\* get_tools: one pass of the loop over the list taken, or its end
GetToolsNext ==
    /\ tools_reader.pc = "iter"
    /\ LET rest == tools_reader.tools[1] \ tools_reader.out
       IN  IF rest = {} THEN tools_reader' = [tools_reader EXCEPT !.pc = "done"]
           ELSE \E n \in rest :
                   tools_reader' = [tools_reader EXCEPT !.out = @ \cup {n}]
    /\ UNCHANGED << hostVars, mcpVars, check_thread, listed, exit_stack,
                    live_sessions, last_listing, turnVars >>

\* get_mcp_tools returns the names
GetToolsReturn ==
    /\ tools_reader.pc = "done"
    /\ tools_reader' = IdleReader
    /\ UNCHANGED << hostVars, mcpVars, check_thread, listed, exit_stack,
                    live_sessions, last_listing, turnVars >>

\* -------------------------------------------------------- specification
Next ==
    \/ \E msg \in UserMessages : ChatEmpty(msg)
    \/ \E msg \in UserMessages, slow \in BOOLEAN, mode \in RequestModes :
          Len(conversation) < 2 * MaxChats /\ Chat(msg, slow, mode)
    \/ TurnEnd
    \/ TurnIdle /\ ResetConversation
    \/ \E mode \in RequestModes : HealthCheck(mode)
    \/ HostChange
    \/ \E fails \in BOOLEAN : GenerateStart(fails)
    \/ ReaderGet
    \/ ReaderTimeout
    \/ \E crash \in BOOLEAN : WorkerStart(crash)
    \/ \E text \in TurnTexts : ModelReturn(text)
    \/ ModelFails
    \/ \E exists \in BOOLEAN : ToolBegin(exists)
    \/ \E mode \in HostModes : ChildConnect(mode)
    \/ \E call \in {"ok", "raise"}, v \in TurnValues : ChildFinish(call, v)
    \/ ToolReturn
    \/ ToolTimeoutExpired
    \/ \E text \in FollowUpTexts : FollowUpReturn(text)
    \/ FollowUpFails
    \/ Finalize
    \/ Tick

Spec == Init /\ [][Next]_vars

\* the steps of the thread that runs generate(), and those steps of the thread
\* that runs generate_response() that depend on nothing but the thread itself
ReaderStep ==
    \/ \E fails \in BOOLEAN : GenerateStart(fails)
    \/ ReaderGet
    \/ ReaderTimeout

WorkerStep ==
    \/ \E crash \in BOOLEAN : WorkerStart(crash)
    \/ \E exists \in BOOLEAN : ToolBegin(exists)
    \/ ToolReturn
    \/ ToolTimeoutExpired
    \/ Finalize

\* the scheduler runs every thread that can run, and time passes; the model
\* API and the child process may never answer
FairSpec ==
    /\ Spec
    /\ WF_vars(ReaderStep)
    /\ WF_vars(WorkerStep)
    /\ WF_vars(Tick)

\* the connection checks and the tool listing of concurrent requests
ConnNext ==
    \/ HostChange
    \/ \E t \in Threads : StartCheck(t)
    \/ \E t \in Threads : RunCheck(t)
    \/ \E t \in Threads, mode \in HostModes : KeepAlive(t, mode)
    \/ \E t \in Threads : ConnectBegin(t)
    \/ \E t \in Threads, mode \in HostModes : ConnectEnter(t, mode)
    \/ \E t \in Threads, mode \in HostModes : RefreshList(t, mode)
    \/ \E t \in Threads : RefreshAssign(t)
    \/ \E t \in Threads : ConnectFinish(t)
    \/ GetToolsStart
    \/ \E mode \in HostModes : GetToolsList(mode)
    \/ GetToolsAssign
    \/ GetToolsCheck
    \/ GetToolsFor
    \/ GetToolsNext
    \/ GetToolsReturn

ConnSpec == Init /\ [][ConnNext]_vars

\* ------------------------------ extraction and display text on any text
\* one chat request whose connection check succeeds, up to the answer of the
\* model: messages.create returns any of the texts, and the extraction and
\* the display filter are applied to it
FilterNext ==
    \/ \E msg \in UserMessages : Chat(msg, FALSE, "up")
    \/ GenerateStart(FALSE)
    \/ WorkerStart(FALSE)
    \/ \E text \in FilterTexts : ModelReturn(text)
    \/ \E exists \in BOOLEAN : ToolBegin(exists)

FilterSpec == Init /\ [][FilterNext]_vars

\* ------------------------------------------ tool_runner on any host value
\* tool_runner.py run as a script, with any arguments
RunMain(argc_ok, args_json, mode, call, v) ==
    /\ TurnIdle
    /\ child = "none"
    /\ childOut' = main(argc_ok, args_json, mode, call, v)
    /\ UNCHANGED << hostVars, connVars, mcpVars, sessionVars, readerVars, response_queue,
                    workerVars, child, child_mcp, timeVars, histVars >>

\* the text of a turn with one tool call
OneCallText == << Mention(0, "search_medicines", TRUE) >>

\* tool_runner run from the command line, and run by a chat turn with one
\* tool call, on every value the host may return
RunnerNext ==
    \/ \E argc_ok \in BOOLEAN, args_json \in BOOLEAN, mode \in HostModes,
          call \in {"ok", "raise"}, v \in HostValues :
          RunMain(argc_ok, args_json, mode, call, v)
    \/ \E msg \in UserMessages : Chat(msg, FALSE, "up")
    \/ GenerateStart(FALSE)
    \/ WorkerStart(FALSE)
    \/ ModelReturn(OneCallText)
    \/ ToolBegin(TRUE)
    \/ \E mode \in HostModes : ChildConnect(mode)
    \/ \E call \in {"ok", "raise"}, v \in HostValues : ChildFinish(call, v)

RunnerSpec == Init /\ [][RunnerNext]_vars

\* --------------------------------- one invocation, any end of the process
\* a chat turn with one tool call whose child process ends in any way, in
\* time or not
InvokeNext ==
    \/ \E msg \in UserMessages : Chat(msg, FALSE, "up")
    \/ GenerateStart(FALSE)
    \/ ReaderGet
    \/ ReaderTimeout
    \/ WorkerStart(FALSE)
    \/ ModelReturn(OneCallText)
    \/ ToolBegin(TRUE)
    \/ \E mode \in HostModes : ChildConnect(mode)
    \/ \E call \in {"ok", "raise"}, v \in TurnValues : ChildFinish(call, v)
    \/ \E rc \in {0, 1}, stdout \in ExitOutputs : ChildExit(rc, stdout)
    \/ ToolReturn
    \/ ToolTimeoutExpired
    \/ Tick

InvokeSpec == Init /\ [][InvokeNext]_vars

\* ------------------------------------------- the session over several turns
\* chat, reset and health requests of one session: turns with one tool call
\* or none that succeed or fail, a reset_conversation request at any time,
\* also while a turn is streaming, and every kind of message
SessionMessages == UserMessages \cup { "", "hola" }
SessionTexts == { << Plain, Stop >>, OneCallText }

SessionNext ==
    \/ \E msg \in SessionMessages : ChatEmpty(msg)
    \/ \E msg \in SessionMessages, slow \in BOOLEAN, mode \in RequestModes :
          Len(conversation) < 2 * MaxSessionChats /\ Chat(msg, slow, mode)
    \/ ResetConversation
    \/ \E mode \in RequestModes : HealthCheck(mode)
    \/ TurnEnd
    \/ \E fails \in BOOLEAN : GenerateStart(fails)
    \/ ReaderGet
    \/ \E crash \in BOOLEAN : WorkerStart(crash)
    \/ \E text \in SessionTexts : ModelReturn(text)
    \/ ModelFails
    \/ \E exists \in BOOLEAN : ToolBegin(exists)
    \/ \E mode \in HostModes : ChildConnect(mode)
    \/ \E call \in {"ok", "raise"}, v \in TurnValues : ChildFinish(call, v)
    \/ ToolReturn
    \/ \E text \in FollowUpTexts : FollowUpReturn(text)
    \/ FollowUpFails
    \/ Finalize

SessionSpec == Init /\ [][SessionNext]_vars

\* ------------------------------------------------------------ properties
\* the generator ran to its end after the model answered
GeneratorFinished == wpc = "done" /\ apiFailed \in {"none", "followup"}

\* C1: a turn with zero extracted tool calls yields start, the model's text
\* unchanged, complete - no error event and no tool event.
C1_ZeroCallsEmitTextAndComplete ==
    (GeneratorFinished /\ tools_to_call = << >>)
        => yielded = << Event("start", "", << >>),
                        Event("chunk", "", response_content),
                        Event("complete", "", response_content) >>

\* C2: one tool call, a successful tool result and follow-up: the caller
\* receives exactly start, chunk, tool_use, tool_result, follow_up, complete,
\* end, each once.
C2_OneCallEventSequence ==
    ( /\ rpc = "ended"
      /\ GeneratorFinished
      /\ Len(tools_to_call) = 1
      /\ Count(yielded, "tool_result") = 1
      /\ Count(yielded, "follow_up") = 1
      /\ cutAt = "none" )
        => Types(delivered) = << "start", "chunk", "tool_use", "tool_result",
                                 "follow_up", "complete", "end" >>

\* C3: every stream ends with an end record: at most one end record is
\* written, nothing follows it, and a stream that has started always ends.
EndOnceAndLast ==
    /\ Count(delivered, "end") <= 1
    /\ \A i \in 1 .. Len(delivered) : delivered[i].type = "end" => i = Len(delivered)
    /\ rpc = "ended" => (delivered # << >> /\ Last(delivered).type = "end")
    /\ rpc \in {"start", "loop"} => Count(delivered, "end") = 0

C3_StreamTerminates ==
    /\ []EndOnceAndLast
    /\ (rpc \in {"start", "loop"}) ~> (rpc = "ended")

\* a stream cut by the read timeout while the model is awaited, ended by end
C3_Witness ==
    /\ rpc = "ended"
    /\ cutAt = "model"
    /\ Count(delivered, "error") = 1
    /\ Last(delivered).type = "end"

\* C4: an exception of the model API, in the initial or in a follow-up
\* generation, yields exactly one error event and nothing after it (no
\* tool_use, tool_result, follow_up or complete).
C4_ModelFailureIsTurnFatal ==
    (wpc = "done" /\ apiFailed \in {"initial", "followup"})
        => (Count(yielded, "error") = 1 /\ Last(yielded).type = "error")

\* the events yielded for call i: from its tool_use to the next tool_use
UsePositions == { k \in 1 .. Len(yielded) : yielded[k].type = "tool_use" }
UsePos(i) ==
    CHOOSE k \in UsePositions : Cardinality({ j \in UsePositions : j <= k }) = i
SegmentTypes(i) ==
    LET from == UsePos(i)
        later == { k \in UsePositions : k > from }
        to == IF later = {} THEN Len(yielded)
              ELSE (CHOOSE k \in later : \A j \in later : k <= j) - 1
    IN  { yielded[k].type : k \in from + 1 .. to }

\* C5: a failed tool invocation yields a tool_error for that call and no
\* result; it never becomes an error event, every extracted call is still
\* announced and run, and the generator ends with complete.
C5_ToolFailureIsLocal ==
    /\ Cardinality(UsePositions) = Cardinality(StepsOf("tool_use"))
    /\ \A k \in StepsOf("failed") :
          /\ "tool_error" \in SegmentTypes(trace[k].call)
          /\ SegmentTypes(trace[k].call) \cap {"tool_result", "follow_up", "error"} = {}
    /\ (GeneratorFinished /\ tools_to_call # << >>)
          => /\ Cardinality(UsePositions) = Len(tools_to_call)
             /\ \A i \in 1 .. Len(tools_to_call) :
                   StepsOfCall("ok", i) \cup StepsOfCall("failed", i) # {}
             /\ Count(yielded, "error") = 0
             /\ Last(yielded).type = "complete"

\* the first of two calls fails, the second one runs and succeeds
C5_Witness ==
    /\ GeneratorFinished
    /\ Len(tools_to_call) = 2
    /\ StepsOfCall("failed", 1) # {}
    /\ StepsOfCall("return", 1) # {}
    /\ StepsOfCall("ok", 2) # {}
    /\ Last(yielded).type = "complete"

\* C6: the calls of a round run one at a time, in extraction order: call i is
\* announced, run and answered before call i+1 is announced, and at most one
\* subprocess is in flight.
C6_SequentialDispatch ==
    /\ \A k \in 1 .. Len(trace) :
          /\ trace[k].ev = "tool_use" =>
                IF k = 1 THEN trace[k].call = 1
                ELSE /\ trace[k - 1].ev \in {"ok", "failed"}
                     /\ trace[k - 1].call + 1 = trace[k].call
          /\ trace[k].ev # "tool_use" => (k > 1 /\ trace[k - 1].call = trace[k].call)
          /\ trace[k].ev = "spawn" => trace[k - 1].ev = "tool_use"
          /\ trace[k].ev = "host_call" => trace[k - 1].ev = "spawn"
          /\ trace[k].ev = "host_done" => trace[k - 1].ev = "host_call"
          /\ trace[k].ev \in {"return", "timeout"} =>
                trace[k - 1].ev \in {"spawn", "host_call", "host_done"}
          /\ trace[k].ev = "ok" => trace[k - 1].ev = "return"
    /\ Cardinality(StepsOf("spawn"))
          - Cardinality(StepsOf("return") \cup StepsOf("timeout"))
       = (IF child = "none" THEN 0 ELSE 1)

\* two calls, both of which reached the host
C6_Witness ==
    /\ Len(tools_to_call) = 2
    /\ StepsOfCall("host_done", 1) # {}
    /\ StepsOfCall("host_call", 2) # {}

\* C7: every announced tool call has a name that the registry of the shared
\* client holds at that time.
C7_AnnouncedNamesAreRegistered ==
    \A k \in UsePositions : yielded[k].name \in RegistryNames(mcp_client)

\* C8: the host's callTool is reached only for a name that the registry of
\* the calling client holds.
C8_UnknownToolNeverReachesHost ==
    child = "calling" => tools_to_call[idx].name \in RegistryNames(child_mcp)

\* C9: an accepted call is run at most once and reaches the host at most
\* once, also when it failed or timed out.
C9_AtMostOneInvocation ==
    /\ \A k \in 1 .. Len(trace) : trace[k].call \in 1 .. Len(tools_to_call)
    /\ \A i \in 1 .. Len(tools_to_call) :
          /\ Cardinality(StepsOfCall("tool_use", i)) <= 1
          /\ Cardinality(StepsOfCall("spawn", i)) <= 1
          /\ Cardinality(StepsOfCall("host_call", i)) <= 1

\* a call that reached the host and then timed out, the loop has gone on
C9_Witness ==
    /\ wpc = "done"
    /\ \E i \in 1 .. Len(tools_to_call) :
          /\ StepsOfCall("host_call", i) # {}
          /\ StepsOfCall("timeout", i) # {}

\* C10: the stream is not cut by the read timeout while a tool that has used
\* up its timeout is being waited for.
C10_ToolTimeoutDoesNotEndTurn ==
    cutAt = "tool" => opTime < ToolTimeout

\* tool_messages of the follow-up request for the call at idx: the messages
\* of the turn, the model's text, and one user message for that call
ToolMessage(call, result) ==
    [role |-> "user", content |-> << call.name, call.args, result >>]

tool_messages ==
    current_conversation
        \o << [role |-> "assistant", content |-> response_content],
              ToolMessage(tools_to_call[idx], formatted_result) >>

\* the messages of tool_messages that were made from tool results
SyntheticMessages ==
    SubSeq(tool_messages, Len(current_conversation) + 2, Len(tool_messages))

\* the calls of the round that have been run and answered
CompletedCalls ==
    { i \in 1 .. Len(tools_to_call) :
        StepsOfCall("ok", i) \cup StepsOfCall("failed", i) # {} }

ExecutedCalls == { i \in 1 .. Len(tools_to_call) : StepsOfCall("ok", i) # {} }

\* C11: a follow-up generation is requested only when every tool call of the
\* round has completed, once per round, and its input holds one tool message
\* for each executed call.
C11_FollowUpAfterAllCalls ==
    wpc = "followup"
        => /\ CompletedCalls = 1 .. Len(tools_to_call)
           /\ Count(yielded, "follow_up") = 0
           /\ apiFailed # "followup"
           /\ \A i \in ExecutedCalls :
                 \E k \in 1 .. Len(SyntheticMessages) :
                    /\ SyntheticMessages[k].role = "user"
                    /\ SyntheticMessages[k].content[1] = tools_to_call[i].name
                    /\ SyntheticMessages[k].content[2] = tools_to_call[i].args

\* the text of the chunk and follow_up events of a sequence of events, joined
RECURSIVE TextOf(_)
TextOf(events) ==
    IF events = << >> THEN << >>
    ELSE (IF Head(events).type \in {"chunk", "follow_up"} THEN Head(events).data
          ELSE << >>) \o TextOf(Tail(events))

\* C12: the content of complete is the display text followed by the result
\* block and follow-up text of each call in execution order, which is the
\* joined content of the chunk and follow_up events yielded before it; the
\* caller receives complete before end.
C12_CompleteIsConcatenation ==
    /\ \A k \in 1 .. Len(yielded) :
          yielded[k].type = "complete"
              => /\ yielded[k].data = TextOf(SubSeq(yielded, 1, k - 1))
                 /\ SubSeq(yielded[k].data, 1, Len(FilteredResponse(response_content)))
                       = FilteredResponse(response_content)
    /\ \A j, k \in 1 .. Len(delivered) :
          (delivered[j].type = "complete" /\ delivered[k].type = "end") => j < k

\* a turn with a follow-up whose complete and end have reached the caller
C12_Witness ==
    /\ rpc = "ended"
    /\ Count(yielded, "follow_up") >= 1
    /\ Count(delivered, "complete") = 1
    /\ Last(delivered).type = "end"

TimeoutError == Event("error", "", Msg("Timeout esperando respuesta"))

\* C13: when a read of the queue times out, the caller receives one timeout
\* error and then end, and nothing that the worker produces afterwards.
C13_ReadTimeoutEndsTurn ==
    cutAt # "none"
        => /\ readWait >= ReadTimeout
           /\ rpc = "ended"
           /\ Len(delivered) >= 2
           /\ delivered[Len(delivered) - 1] = TimeoutError
           /\ Last(delivered).type = "end"
           /\ Cardinality({ k \in 1 .. Len(delivered) : delivered[k] = TimeoutError }) = 1

\* after the read timed out the worker has put more events on the queue
C13_Witness ==
    /\ cutAt # "none"
    /\ wpc = "done"
    /\ Len(response_queue) >= 2

\* C14: once the caller's stream has ended, the worker starts no further tool
\* invocation and no further model call for the turn.
C14_WorkerStopsAfterStreamEnd ==
    [][ rpc = "ended"
          => /\ ~(wpc # "tool" /\ wpc' = "tool")
             /\ ~(wpc # "followup" /\ wpc' = "followup")
             /\ ~(wpc # "model" /\ wpc' = "model") ]_vars

\* the threads that are inside MCPClient.connect
Connecting == { t \in Threads : check_thread[t] \in {"enter", "list", "assign", "finish"} }

\* C15: connects of the shared client are serialized: at most one is in
\* flight, and the client has at most one live session.
C15_ReconnectsSerialized ==
    /\ Cardinality(Connecting) <= 1
    /\ live_sessions <= 1

\* no refresh_capabilities is between the answer of list_tools and the
\* assignment of self.tools
NoRefreshInFlight ==
    /\ \A t \in Threads : check_thread[t] # "assign"
    /\ tools_reader.pc # "assign"

\* C20: get_tools answers one complete registry, never a mix of two, and once
\* the refreshes have completed the registry holds no tool that the latest
\* listing of the host does not hold.
C20_RefreshIsAtomicAndFresh ==
    /\ tools_reader.pc = "done" => tools_reader.out \in tools_reader.seen
    /\ (NoRefreshInFlight /\ last_listing # None)
          => RegistryNames(mcp_client) \subseteq last_listing[1]

\* the matches of the four patterns that the extraction accepts
Recognized(text) ==
    { i \in 1 .. Len(text) :
        /\ text[i].k = "mention"
        /\ text[i].name \in KnownToolNames
        /\ text[i].json }

\* mentions directly followed by the failure sentence
\* 'Lo siento, parece que estoy teniendo problemas.'
MentionThenFailure(text) ==
    { i \in Recognized(text) :
        /\ i + 2 <= Len(text)
        /\ text[i + 1] = FailPhrase
        /\ text[i + 2] = Stop }

Contains(toks, tok) == \E i \in 1 .. Len(toks) : toks[i] = tok

\* C16: when a tool-call mention is followed by the failure sentence, the
\* display text does not contain the failure sentence and still contains the
\* mention.
C16_FailureStrippedMentionKept ==
    (wpc = "loop" /\ MentionThenFailure(response_content) # {})
       => /\ full_response # None
          /\ ~Contains(full_response[1], FailPhrase)
          /\ \A i \in MentionThenFailure(response_content) :
                Contains(full_response[1], response_content[i])

\* C17: for a model text with no recognized tool-call pattern the extraction
\* returns the empty sequence and the display text is the model text,
\* unchanged.
C17_NoPatternNoCallsTextUnchanged ==
    (wpc = "loop" /\ Recognized(response_content) = {})
       => /\ tools_to_call = << >>
          /\ _extract_tool_calls(response_content) = << >>
          /\ filtered_response(response_content) = response_content

\* a text with a mention of an unknown name and a failure phrase went
\* through the extraction and the filter
C17_Witness ==
    /\ wpc = "loop"
    /\ Recognized(response_content) = {}
    /\ Contains(response_content, Mention(0, "inventada", TRUE))
    /\ Contains(response_content, FailPhrase)
    /\ tools_to_call = << >>

\* C18: when the connection check of a chat request fails, the caller
\* receives exactly one error event followed by end, and neither the model
\* nor a tool is called for the turn.
C18_ConnectionFailureIsErrorThenEnd ==
    [][ (Len(conversation') > Len(conversation) /\ rpc' = "none")
           => /\ Types(delivered') = << "error", "end" >>
              /\ wpc' = "idle"
              /\ trace' = << >> ]_vars

\* C19: a listing failure is surfaced to the caller of refresh and so to
\* connect: no connected client holds the empty tool set that stands for a
\* failed listing (the host's catalogue is never empty).
C19_ListingFailureIsSurfaced ==
    ~(mcp_client.connected /\ mcp_client.tools = Some({}))

\* C21: a second refresh with no change of the host in between leaves the
\* tool list as the first refresh made it.
C21_RefreshIsIdempotent ==
    \A mode \in HostModes :
        LET once == refresh_capabilities(mcp_client, mode, hostTools)
            twice == refresh_capabilities(once, mode, hostTools)
        IN  /\ twice.tools = once.tools
            /\ RegistryNames(get_tools(twice, mode, hostTools))
                 = RegistryNames(get_tools(once, mode, hostTools))

\* a connected client whose registry is not the catalogue of the host: the
\* first refresh changes the list
C21_Witness ==
    /\ mcp_client.session # 0
    /\ mcp_client.tools # None
    /\ RegistryNames(mcp_client) # {}
    /\ RegistryNames(mcp_client) # hostTools

Connected(c) == c.connected /\ c.session # 0

\* C22: the connection check on a client that is connected to a healthy host
\* answers success, closes nothing, opens nothing and leaves the client, and
\* so the session in use, as it was.
C22_ConnectionCheckIsIdempotent ==
    Connected(mcp_client)
       => /\ mcp_initialized
          /\ LET r == run_async_connection(mcp_client, mcp_initialized, "up", hostTools)
             IN  /\ r.status = "success"
                 /\ ~r.closed
                 /\ r.attempts = 0
                 /\ r.client = mcp_client
                 /\ r.initialized

\* a connection check has connected the client and listed the catalogue
C22_Witness ==
    /\ Connected(mcp_client)
    /\ mcp_initialized
    /\ mcp_client.tools = Some(hostTools)

\* C23: keep_alive on a connected client lists the capabilities; when the
\* listing fails it closes the connection and connects once; it reports
\* failure only when that connect fails, and the client is then left
\* disconnected.
C23_KeepAliveReconnectsOnce ==
    Connected(mcp_client)
       => \A mode \in RequestModes :
             LET r == keep_alive(mcp_client, mode, hostTools)
             IN  /\ r.listed
                 /\ mode = "up" => r.ok /\ ~r.closed /\ r.attempts = 0
                 /\ mode # "up" => r.closed /\ r.attempts = 1
                 /\ r.ok <=> mode # "down"
                 /\ r.ok => Connected(r.client)
                 /\ ~r.ok => r.client = NewClient

\* a connected client whose registry is empty: a keep_alive whose listing
\* failed has reconnected it
C23_Witness ==
    /\ Connected(mcp_client)
    /\ mcp_initialized
    /\ mcp_client.tools = Some({})

\* C24: an invocation succeeds only if the child exited with code zero
\* within the timeout and its output is one JSON value that is neither
\* unparseable nor an error object; a non-zero exit, a timeout, unparseable
\* output and an error object each give an error result, never a success.
C24_SuccessOnlyFromCleanExit ==
    [][ (wpc = "tool" /\ wpc' # "tool")
           => LET succeeded == Last(yielded').type = "tool_result"
                  failed == Last(yielded') = ToolError(tools_to_call[idx].name)
                  clean == /\ child = "exited"
                           /\ childOut.rc = 0
                           /\ opTime <= ToolTimeout
                           /\ Len(childOut.stdout) = 1
                           /\ childOut.stdout[1].key \notin {"garbage", "error"}
              IN  /\ succeeded # failed
                  /\ succeeded => clean
                  /\ ~clean => failed /\ (wpc' = "loop" /\ idx' = idx + 1) ]_vars

\* a call failed after its process had returned: not by the timeout
C24_Witness ==
    /\ wpc = "loop"
    /\ idx = 2
    /\ Last(yielded) = ToolError(tools_to_call[1].name)
    /\ StepsOfCall("return", 1) # {}

\* tool_runner has run to its end
RunnerExited == childOut # NoChildOut

\* C25: on every path of tool_runner.main exactly one JSON object is written
\* to standard output, with a content or an error field, and the exit code is
\* zero only when the tool was called and its normalized result was written.
C25_OneObjectOnEveryPath ==
    RunnerExited
       => /\ Len(childOut.stdout) = 1
          /\ childOut.stdout[1].key \in {"content", "error"}
          /\ childOut.rc \in {0, 1}
          /\ childOut.rc = 0
                => /\ childOut.result # None
                   /\ LET d == result_to_dict(childOut.result[1])
                      IN  childOut.stdout[1].key = d.key
                   /\ child = "exited" => StepsOfCall("host_call", idx) # {}
          /\ childOut.stdout[1].key = "content" => childOut.rc = 0

\* the runner exited with code zero on an object that only str() can render
C25_Witness ==
    /\ RunnerExited
    /\ childOut.rc = 0
    /\ childOut.result # None
    /\ childOut.result[1].kind = "object"
    /\ childOut.stdout = << Printed("content", "str(value)") >>

\* the value that call_tool returned to a runner that printed a result, and
\* where the printed value was taken from
Returned == childOut.result[1]
PrintedSrc == childOut.stdout[1].src
Normalizing ==
    /\ RunnerExited
    /\ childOut.result # None
    /\ Returned.content # "raises"

RoundTrips(v) == v.kind = "prim" \/ v.dumps
HasContent(v) == v.content \in {"json", "text", "opaque"}

\* C30: a value that round-trips through JSON is used as it is; otherwise a
\* nested content field or a text field is used, the text field of the
\* content first; the value is coerced to its string form only when it has
\* neither.
C30_NormalizationOrder ==
    Normalizing
       => /\ RoundTrips(Returned) => PrintedSrc = "value"
          /\ (~RoundTrips(Returned) /\ HasContent(Returned))
                => PrintedSrc \in {"content", "content.text", "str(content)"}
          /\ (~RoundTrips(Returned) /\ Returned.content = "text")
                => PrintedSrc = "content.text"
          /\ (~RoundTrips(Returned) /\ ~HasContent(Returned) /\ Returned.text)
                => PrintedSrc = "text"
          /\ PrintedSrc = "str(value)"
                => ~HasContent(Returned) /\ ~Returned.text

\* C30, amended: a value that round-trips through JSON is used as it is;
\* otherwise its content, when it has one, is used: as it is when it
\* serializes, else its text field, else its string form; a value without
\* content is rendered by its to_dict or to_json method when that gives a
\* serializable value, else by its text field, else by its serializable
\* public attributes; it is coerced to its string form only when none of
\* these applies or the method's value does not serialize.
C30_NormalizationOrderAmended ==
    Normalizing
       => LET v == Returned
          IN  PrintedSrc =
                IF RoundTrips(v) THEN "value"
                ELSE IF v.content = "json" THEN "content"
                ELSE IF v.content = "text" THEN "content.text"
                ELSE IF v.content = "opaque" THEN "str(content)"
                ELSE IF v.conv # "none" /\ v.convjson THEN v.conv
                ELSE IF v.conv # "none" THEN "str(value)"
                ELSE IF v.text THEN "text"
                ELSE IF v.attrs = "json" THEN "attrs"
                ELSE "str(value)"

\* the runner printed the text field of a content that does not serialize
C30_Witness ==
    /\ Normalizing
    /\ Returned.content = "text"
    /\ childOut.stdout = << Printed("content", "content.text") >>
    /\ childOut.rc = 0

\* the pattern family of the mention a call was extracted from
FamilyOf(call) == response_content[call.args].fam
PrimaryMatches(text) == { i \in 1 .. Len(text) : text[i].k = "mention" /\ text[i].fam = 0 }

RECURSIVE WithoutBadArgs(_)
WithoutBadArgs(text) ==
    IF text = << >> THEN << >>
    ELSE (IF Head(text).k = "mention" /\ ~Head(text).json THEN << >> ELSE << Head(text) >>)
         \o WithoutBadArgs(Tail(text))

Names(calls) == [i \in 1 .. Len(calls) |-> calls[i].name]

\* the mention that a tool_use event announces
MentionOf(event) == response_content[event.data[1].fam]

\* C27: a mention whose argument span is not JSON is discarded without
\* raising: the calls returned are those of the text without it, and it is
\* never announced by tool_use nor invoked.
C27_BadArgumentsAreDiscarded ==
    wpc \in {"loop", "tool"}
       => /\ apiFailed = "none"
          /\ \A i \in 1 .. Len(tools_to_call) : response_content[tools_to_call[i].args].json
          /\ Names(tools_to_call) = Names(_extract_tool_calls(WithoutBadArgs(response_content)))
          /\ \A k \in 1 .. Len(yielded) :
                yielded[k].type = "tool_use" => MentionOf(yielded[k]).json
          /\ child # "none" => response_content[tools_to_call[idx].args].json

\* a text with a discarded mention and a valid one, whose call is announced
C27_Witness ==
    /\ wpc \in {"loop", "tool"}
    /\ \E i \in 1 .. Len(response_content) :
          response_content[i].k = "mention" /\ ~response_content[i].json
    /\ Count(yielded, "tool_use") >= 1

\* the chunk event of the turn
ChunkData == yielded[CHOOSE k \in 1 .. Len(yielded) : yielded[k].type = "chunk"].data

\* C28: in a turn with an extracted call, the text emitted before the tools
\* run is the display text: no sentence of it matches a failure pattern, and
\* it is not the raw text when the raw text has one.
C28_ChunkHasNoFailureSentence ==
    (wpc \in {"loop", "tool"} /\ tools_to_call # << >>)
       => /\ Count(yielded, "chunk") = 1
          /\ ~Contains(ChunkData, FailPhrase)
          /\ Contains(response_content, FailPhrase) => ChunkData # response_content
          /\ full_response = Some(ChunkData)

\* a failure sentence after the sentence of the call was dropped, the
\* sentence of the call is emitted
C28_Witness ==
    /\ wpc \in {"loop", "tool"}
    /\ tools_to_call # << >>
    /\ Contains(response_content, FailPhrase)
    /\ \E i \in 1 .. Len(ChunkData) : ChunkData[i].k = "mention"

\* the sentence boundary of the cut: the first terminator at or after the end
\* of the last mention plus the margin, or the end of the text
Boundary(text) ==
    LET last == CHOOSE i \in 1 .. Len(text) :
                   /\ text[i].k = "mention"
                   /\ \A j \in i + 1 .. Len(text) : text[j].k # "mention"
        reach == EndPos(text, last) + Margin
        after == { i \in 1 .. Len(text) : text[i].k = "stop" /\ EndPos(text, i) > reach }
    IN  IF EndPos(text, Len(text)) <= reach \/ after = {} THEN Len(text)
        ELSE CHOOSE i \in after : \A j \in after : i <= j

WithoutEllipsis(toks) ==
    IF toks # << >> /\ Last(toks) = Ellipsis THEN SubSeq(toks, 1, Len(toks) - 1) ELSE toks

RECURSIVE IsSubsequence(_, _)
IsSubsequence(a, b) ==
    IF a = << >> THEN TRUE
    ELSE IF b = << >> THEN FALSE
    ELSE IF Head(a) = Head(b) THEN IsSubsequence(Tail(a), Tail(b))
    ELSE IsSubsequence(a, Tail(b))

\* C29: the display text is cut after the last mention: it keeps the model
\* text up to the first sentence boundary at or after the end of that mention
\* plus the margin, and holds nothing of the text beyond that boundary.
C29_CutAfterLastMention ==
    (wpc \in {"loop", "tool"} /\ tools_to_call # << >>)
       => LET b == Boundary(response_content)
              kept == SubSeq(response_content, 1, b)
              shown == WithoutEllipsis(full_response[1])
          IN  /\ filtered_response(response_content) = full_response[1]
              /\ IsSubsequence(shown, kept)
              /\ Len(shown) <= b
              /\ ~Contains(kept, FailPhrase) => shown = kept

\* a text that goes on beyond the boundary, of which no sentence is dropped
C29_Witness ==
    /\ wpc \in {"loop", "tool"}
    /\ tools_to_call # << >>
    /\ Boundary(response_content) < Len(response_content)
    /\ ~Contains(response_content, FailPhrase)
    /\ full_response[1] = SubSeq(response_content, 1, Boundary(response_content))

\* C32: whenever no connect or close is in progress the connection state of
\* the shared MCPClient is consistent: connected only with a session held,
\* and a client without a session holds no cached tools and is not connected.
C32_ConnectionStateConsistent ==
    (\A t \in Threads : check_thread[t] = "idle")
       => /\ mcp_client.connected => mcp_client.session # 0
          /\ mcp_client.session = 0
                => mcp_client.tools = None /\ ~mcp_client.connected

\* C33: the tool calls of a turn are announced and executed in the order in
\* which their mentions appear in the model text.
C33_CallsInMentionOrder ==
    wpc \in {"loop", "tool"}
       => /\ \A i, j \in 1 .. Len(tools_to_call) :
                i < j => tools_to_call[i].args < tools_to_call[j].args
          /\ \A k, l \in 1 .. Len(yielded) :
                (k < l /\ yielded[k].type = "tool_use" /\ yielded[l].type = "tool_use")
                   => yielded[k].data[1].fam < yielded[l].data[1].fam

\* C36: the complete_response of the end record is the content of the
\* complete event when one reached the caller, and otherwise the contents of
\* the chunk and follow_up events delivered in the turn, joined in order.
C36_EndCarriesCompleteOrDelivered ==
    \A k \in 1 .. Len(delivered) :
       (delivered[k].type = "end" /\ delivered[k].name # "no_complete_response")
          => /\ \A j \in 1 .. Len(delivered) :
                   delivered[j].type = "complete" => delivered[k].data = delivered[j].data
             /\ Count(delivered, "complete") = 0
                   => delivered[k].data = TextOf(SubSeq(delivered, 1, k - 1))
             /\ Count(yielded, "complete") = 1 /\ cutAt = "none" /\ apiFailed # "crash"
                   => Count(delivered, "complete") = 1

\* a turn cut off after a follow-up was delivered and before complete: the
\* end record carries the chunk and the follow-up
C36_Witness ==
    /\ rpc = "ended"
    /\ Last(delivered).type = "end"
    /\ Count(delivered, "complete") = 0
    /\ Count(delivered, "follow_up") >= 1
    /\ Last(delivered).data = TextOf(delivered)

\* a step that serves a chat request whose message was accepted
ChatAccepted ==
    /\ rpc = "none"
    /\ http'.route = "chat" /\ http'.code # 400
    /\ http' # http \/ conversation' # conversation

\* C31: the conversation handed to the worker is the session history of the
\* moment of the request followed by the new user message, and no later
\* change of the session conversation (the placeholder, a reset) changes what
\* the worker sends to the model in that turn.
C31_SnapshotByValue ==
    /\ [][ChatAccepted
             => current_conversation'
                   = conversation \o << [role |-> "user", content |-> http'.msg] >>]_vars
    /\ [][rpc # "none"
             => messages(current_conversation') = messages(current_conversation)]_vars
    /\ [](wpc = "model"
             => LET m == messages(current_conversation)
                IN  /\ m # << >>
                    /\ Last(m).role = "user"
                    /\ Last(m).content \notin {"", "  "})

\* the session was reset while the second turn waits for the model: the
\* worker still holds the first turn's pair and the new message
C31_Witness ==
    /\ wpc = "model"
    /\ conversation = << >>
    /\ Len(messages(current_conversation)) = 3

\* the session conversation is pairs of a user message and the placeholder
PlaceholderPairs(conv) ==
    /\ Len(conv) % 2 = 0
    /\ \A i \in 1 .. Len(conv) :
          IF i % 2 = 1
          THEN conv[i].role = "user" /\ conv[i].content \notin {"", "  ", Placeholder}
          ELSE conv[i] = [role |-> "assistant", content |-> Placeholder]

\* C34: every accepted chat request appends one user message and one
\* assistant message holding the placeholder, whatever the outcome of the
\* turn, nothing else is ever stored, and the history sent to the model in a
\* later turn carries the placeholder where the earlier answers would be.
C34_SessionStoresPlaceholderOnly ==
    /\ [][ChatAccepted
             => conversation'
                   = conversation \o << [role |-> "user", content |-> http'.msg],
                                        [role |-> "assistant", content |-> Placeholder] >>]_vars
    /\ [][(conversation' # conversation /\ ~ChatAccepted) => conversation' = << >>]_vars
    /\ [](PlaceholderPairs(conversation))
    /\ [](wpc = "model"
             => PlaceholderPairs(SubSeq(messages(current_conversation), 1,
                                        Len(current_conversation) - 1)))

\* the second turn of a session has delivered its composed answer, and the
\* session holds two placeholders
C34_Witness ==
    /\ rpc = "ended"
    /\ Count(delivered, "complete") = 1
    /\ Len(current_conversation) = 3
    /\ Len(conversation) = 4
    /\ conversation[2].content = Placeholder /\ conversation[4].content = Placeholder

\* C35: a chat request with an empty or whitespace-only message is answered
\* with an error and changes nothing: the conversation is as it was, no
\* connection check is made, no model call and no tool call is started.
C35_BlankMessageRejected ==
    [][(http' # http /\ http'.route = "chat" /\ http'.msg \in {"", "  "})
          => /\ http'.code = 400
             /\ ~http'.checked
             /\ UNCHANGED << conversation, current_conversation, mcp_client,
                             mcp_initialized, rpc, wpc, child, response_queue, yielded,
                             check_thread >>]_vars

\* a whitespace-only message was rejected in a session that has a history
C35_Witness ==
    /\ http.route = "chat" /\ http.msg = "  " /\ http.code = 400
    /\ conversation # << >>
    /\ rpc = "none"

====
